---- MODULE Spec2Model ----
(***************************************************************************)
(* Model of the BitingLip command-line client: one command invocation of   *)
(* src/cli/commands/*.py driving BitingLipClient (src/cli/client.py)       *)
(* against a gateway whose answers are chosen nondeterministically.        *)
(*                                                                         *)
(* One logical request (_make_request) is a sequence of HTTP attempts; the *)
(* urllib3 Retry object mounted in BitingLipClient.__init__ decides after  *)
(* every attempt whether another one is sent.  Gateway responses are       *)
(* modelled as (status, body) pairs without a Retry-After header and       *)
(* without redirects.                                                      *)
(***************************************************************************)
EXTENDS Integers, Sequences, FiniteSets, TLC

\* ---------------------------------------------------------------- bounds
\* Largest api_retries value explored.
MaxRetries == 2
\* Largest number of get_task polls of "tasks create --wait" explored.
MaxPolls == 2
\* Largest number of options given together in one invocation explored.
MaxGiven == 2
\* Largest number of extra "/" at the end of a base URL or at the start of
\* an endpoint explored.
MaxSlashes == 2
\* Latest reading of the clock, in seconds after start_time, explored in
\* wait_for_completion.
MaxClock == 4
\* Largest number of rows and largest page_size given to
\* print_table_with_pagination explored.
MaxRows == 6
MaxPageSize == 3

\* ------------------------------------------------------------- constants
\* status_code of a BitingLipAPIError built without one (Python None).
NoStatus == 0

\* ------------------------------------------------------ gateway answers
Statuses == {200, 201, 202, 204, 400, 401, 403, 404, 409, 422,
             429, 500, 502, 503, 504}

\* Response bodies by shape:
\*   text           not JSON
\*   obj            JSON object without the fields below
\*   objDetail      JSON object with a string "detail"
\*   objDetailList  JSON object whose "detail" is a list
\*   objId          JSON object with a non-empty "id" (a task still running)
\*   objCompleted / objFailed / objCancelled
\*                  task objects with "id" and that terminal "status"
\*   arr, str, null JSON values that are not objects
Bodies == {"text", "obj", "objDetail", "objDetailList", "objId",
           "objCompleted", "objFailed", "objCancelled", "arr", "str", "null"}

\* response.json() succeeds
IsJSON(b) == b # "text"

\* response.json() is a dict
IsObject(b) == b \in {"obj", "objDetail", "objDetailList", "objId",
                      "objCompleted", "objFailed", "objCancelled"}

\* 'detail' in error_data
HasDetail(b) == b \in {"objDetail", "objDetailList"}

NoOutcome == [kind |-> "none", status |-> NoStatus, body |-> "-"]

\* What one HTTP attempt can end with: a response, a failure before the
\* request was sent (DNS, refused, connect timeout), or a failure after it
\* was sent (read timeout, connection reset).
\* Task objects are explored as bodies of 200 and 201 responses only; with
\* any other status they are read like "obj".
BodiesOf(status) ==
    IF status \in {200, 201} THEN Bodies
    ELSE Bodies \ {"objId", "objCompleted", "objFailed", "objCancelled"}

Outcomes ==
    UNION {[kind : {"response"}, status : {s}, body : BodiesOf(s)] : s \in Statuses}
    \cup [kind : {"connect_error", "read_error"}, status : {NoStatus}, body : {"-"}]

IsFailure(o) == o.kind \in {"connect_error", "read_error"}

\* ------------------------------------------------------------ facades
Facades == {"get_system_status", "get_health_check", "list_models", "get_model",
            "create_model", "update_model", "delete_model", "list_workers",
            "get_worker", "register_worker", "update_worker", "list_tasks",
            "get_task", "create_task", "cancel_task", "get_cluster_status",
            "get_cluster_health", "download_model", "assign_model", "unload_model"}

\* HTTP method each facade passes to _make_request
FacadeMethodGetOnly(f) == "GET"
FacadeMethod(f) ==
    CASE f \in {"create_model", "register_worker", "create_task", "cancel_task",
                "download_model", "assign_model", "unload_model"} -> "POST"
      [] f \in {"update_model", "update_worker"} -> "PUT"
      [] f = "delete_model" -> "DELETE"
      [] OTHER -> "GET"

\* facades whose path embeds an identifier argument
FacadeTakesId(f) ==
    f \in {"get_model", "update_model", "delete_model", "get_worker", "update_worker",
           "get_task", "cancel_task", "assign_model", "unload_model"}

\* The endpoint each facade passes to _make_request, as the chunks of the
\* string: "/" before every segment, the identifier argument where the
\* f-string embeds it.
FacadePath(f, id) ==
    CASE f = "get_system_status" -> <<"/", "api", "/", "system", "/", "status">>
      [] f = "get_health_check" -> <<"/", "api", "/", "health">>
      [] f \in {"list_models", "create_model"} -> <<"/", "api", "/", "models">>
      [] f \in {"get_model", "update_model", "delete_model"} ->
            <<"/", "api", "/", "models", "/", id>>
      [] f \in {"list_workers", "register_worker"} -> <<"/", "api", "/", "workers">>
      [] f \in {"get_worker", "update_worker"} -> <<"/", "api", "/", "workers", "/", id>>
      [] f \in {"list_tasks", "create_task"} -> <<"/", "api", "/", "tasks">>
      [] f = "get_task" -> <<"/", "api", "/", "tasks", "/", id>>
      [] f = "cancel_task" -> <<"/", "api", "/", "tasks", "/", id, "/", "cancel">>
      [] f = "get_cluster_status" -> <<"/", "api", "/", "cluster", "/", "status">>
      [] f = "get_cluster_health" -> <<"/", "api", "/", "cluster", "/", "health">>
      [] f = "download_model" -> <<"/", "api", "/", "models", "/", "download">>
      [] f = "assign_model" -> <<"/", "api", "/", "models", "/", id, "/", "assign">>
      [] OTHER -> <<"/", "api", "/", "models", "/", id, "/", "unload">>

\* --------------------------------------------------------- retry policy
\* Retry(status_forcelist=[429, 500, 502, 503, 504])
StatusForcelist == {429, 500, 502, 503, 504}

\* Retry(...) is built without allowed_methods: urllib3's default applies,
\* which leaves POST out of the methods retried on a status or a read error.
AllowedMethodsWithPost == {"GET", "PUT", "DELETE", "HEAD", "OPTIONS", "TRACE", "POST"}
AllowedMethods == {"GET", "PUT", "DELETE", "HEAD", "OPTIONS", "TRACE"}

\* Retry.is_retry / Retry.increment after the attempt number `made` of a
\* request with method m under Retry(total=n): TRUE when another attempt is
\* sent.
ShouldRetryAnyMethod(n, m, made, o) ==
    /\ made <= n
    /\ CASE o.kind = "connect_error" -> TRUE
         [] o.kind = "read_error" -> TRUE
         [] OTHER -> o.status \in StatusForcelist
ShouldRetryOffByOne(n, m, made, o) ==
    /\ made <= n + 1
    /\ CASE o.kind = "connect_error" -> TRUE
         [] o.kind = "read_error" -> m \in AllowedMethods
         [] OTHER -> m \in AllowedMethods /\ o.status \in StatusForcelist
ShouldRetry(n, m, made, o) ==
    /\ made <= n
    /\ CASE o.kind = "connect_error" -> TRUE
         [] o.kind = "read_error" -> m \in AllowedMethods
         [] OTHER -> m \in AllowedMethods /\ o.status \in StatusForcelist

\* --------------------------------------------------- payloads and errors
NoPayload == [body |-> "-", mapping |-> FALSE, src |-> "none", message |-> "-"]

\* response.json()
Decoded(b) == [body |-> b, mapping |-> IsObject(b), src |-> "body", message |-> "-"]

\* {"message": <msg>} built by the client; for msg = response.text the body
\* it was taken from is kept.
Synth(msg, b) == [body |-> b, mapping |-> TRUE, src |-> "synth", message |-> msg]

NoMessage == [body |-> "-", form |-> "none", code |-> NoStatus]

\* f'HTTP {response.status_code}: {response.reason}'
HttpMessage(code) == [body |-> "-", form |-> "http", code |-> code]

\* error_data['detail']
DetailMessage(b) == [body |-> b, form |-> "detail", code |-> NoStatus]

\* f"Request failed: {str(e)}"
FailedMessage == [body |-> "-", form |-> "request_failed", code |-> NoStatus]

NoResult == [message |-> NoMessage, outcome |-> "none", exc |-> "-",
             value |-> NoPayload, status_code |-> NoStatus, response |-> NoPayload]

Return(v) == [message |-> NoMessage, outcome |-> "return", exc |-> "-",
              value |-> v, status_code |-> NoStatus, response |-> NoPayload]

\* raise BitingLipAPIError(message, status_code, response)
BitingLipAPIError(msg, code, resp) ==
    [message |-> msg, outcome |-> "raise", exc |-> "BitingLipAPIError",
     value |-> NoPayload, status_code |-> code, response |-> resp]

\* any other exception leaving _make_request
Raise(e) == [message |-> NoMessage, outcome |-> "raise", exc |-> e,
             value |-> NoPayload, status_code |-> NoStatus, response |-> NoPayload]

\* except requests.RequestException as e: raise BitingLipAPIError(...)
HandleTransportErrorLeaky(o) == Raise("RequestException")
HandleTransportError(o) == BitingLipAPIError(FailedMessage, NoStatus, NoPayload)

\* the status_code == 200 branch
Handle200Strict(b) ==
    IF IsJSON(b) THEN Return(Decoded(b)) ELSE Raise("JSONDecodeError")
Handle200(b) ==
    IF IsJSON(b) THEN Return(Decoded(b)) ELSE Return(Synth("response.text", b))

\* the status_code == 201 branch
Handle201Raw(b) ==
    IF IsJSON(b) THEN Return(Decoded(b)) ELSE Return(Synth("response.text", b))
Handle201(b) ==
    IF IsJSON(b) THEN Return(Decoded(b)) ELSE Return(Synth("Created successfully", "-"))

\* the status_code == 204 branch
Handle204Decoding(b) ==
    IF IsJSON(b) THEN Return(Decoded(b)) ELSE Return(Synth("Success", "-"))
Handle204(b) == Return(Synth("Success", "-"))

\* the else branch: error_data.get(...) needs a dict
HandleErrorStatus(code, b) ==
    IF ~IsJSON(b) THEN BitingLipAPIError(HttpMessage(code), code, NoPayload)
    ELSE IF ~IsObject(b) THEN Raise("AttributeError")
    ELSE IF HasDetail(b) THEN BitingLipAPIError(DetailMessage(b), code, Decoded(b))
    ELSE BitingLipAPIError(HttpMessage(code), code, Decoded(b))

\* _make_request once session.request has returned or raised for good
MakeRequestResult(o) ==
    IF IsFailure(o) THEN HandleTransportError(o)
    ELSE CASE o.status = 200 -> Handle200(o.body)
           [] o.status = 201 -> Handle201(o.body)
           [] o.status = 204 -> Handle204(o.body)
           [] OTHER -> HandleErrorStatus(o.status, o.body)

\* ------------------------------------------------------------ commands
\* Commands whose body is one GET facade call followed by display code.
DisplayCommands == {"models_list", "models_show", "workers_list", "workers_show",
                    "workers_stats", "workers_health", "tasks_list", "tasks_show",
                    "tasks_stats", "tasks_logs", "system_status", "system_health",
                    "system_version", "cluster_status", "cluster_health",
                    "cluster_nodes", "cluster_resources", "cluster_metrics"}

\* Commands that change gateway state with one facade call.
MutatingCommands == {"models_register", "models_delete", "models_download",
                     "models_assign", "models_unload", "workers_register",
                     "workers_update", "tasks_cancel"}

Commands == DisplayCommands \cup MutatingCommands
                \cup {"tasks_create", "system_info", "system_logs"}

\* The facade a command calls first.
FirstFacade(c) ==
    CASE c = "models_list" -> "list_models"
      [] c = "models_show" -> "get_model"
      [] c = "models_register" -> "create_model"
      [] c = "models_delete" -> "delete_model"
      [] c = "models_download" -> "download_model"
      [] c = "models_assign" -> "assign_model"
      [] c = "models_unload" -> "unload_model"
      [] c = "workers_list" -> "list_workers"
      [] c = "workers_show" -> "get_worker"
      [] c = "workers_register" -> "register_worker"
      [] c = "workers_update" -> "update_worker"
      [] c \in {"workers_stats", "cluster_status", "cluster_nodes",
                "cluster_resources", "cluster_metrics"} -> "get_cluster_status"
      [] c \in {"workers_health", "cluster_health"} -> "get_cluster_health"
      [] c = "tasks_list" -> "list_tasks"
      [] c \in {"tasks_show", "tasks_logs"} -> "get_task"
      [] c = "tasks_create" -> "create_task"
      [] c = "tasks_cancel" -> "cancel_task"
      [] c = "system_health" -> "get_health_check"
      [] OTHER -> "get_system_status"

\* Commands with an identifier argument (an id, or the name of the thing
\* registered or downloaded).
IdCommands == {"models_show", "models_register", "models_delete", "models_download",
               "models_assign", "models_unload", "workers_show", "workers_register",
               "workers_update", "tasks_show", "tasks_logs", "tasks_cancel"}

\* Commands with JSON-valued options (opt1, opt2).
JsonCommands == {"workers_register", "workers_update", "tasks_create", "models_register"}

\* Display commands with a `return` inside the with block.
EarlyReturnCommands == {"models_list", "workers_list", "workers_stats", "workers_health",
                        "tasks_list", "tasks_stats", "cluster_nodes",
                        "cluster_resources", "cluster_metrics"}

\* Display commands that test output_format before they touch the payload.
FormatFirstCommands == {"models_show", "workers_show", "tasks_show", "cluster_status",
                        "cluster_health", "system_status", "system_health"}

\* A JSON-valued option as given on the command line: not given (None), the
\* empty string, a non-empty string that is not JSON, a JSON text.
JsonOpt == {"absent", "empty", "invalid", "valid"}

\* a string option: not given, the empty string, a non-empty string
StrOpt == {"absent", "empty", "value"}

\* an integer option: not given, 0, a positive number
IntOpt == {"absent", "zero", "value"}

DefaultArgs == [status |-> "absent", id |-> "x", opt1 |-> "absent", opt2 |-> "absent",
                source |-> TRUE, wait |-> FALSE, force |-> TRUE, confirm |-> FALSE,
                max_load |-> "absent", eof |-> FALSE]

\* the options of the four that were given on the command line
Given(a) ==
    {f \in {"status", "max_load", "opt1", "opt2"} :
        \/ f = "status" /\ a.status # "absent"
        \/ f = "max_load" /\ a.max_load # "absent"
        \/ f = "opt1" /\ a.opt1 # "absent"
        \/ f = "opt2" /\ a.opt2 # "absent"}

\* The argument values explored for each command.
ArgsFor(c) ==
    LET ids == IF c \in IdCommands THEN {"", "x"} ELSE {"x"}
        o1 == IF c \in JsonCommands \ {"models_register"} THEN JsonOpt ELSE {"absent"}
        o2 == IF c \in JsonCommands THEN JsonOpt ELSE {"absent"}
        src == IF c = "models_register" THEN BOOLEAN ELSE {TRUE}
        w == IF c = "tasks_create" THEN BOOLEAN ELSE {FALSE}
        fc == IF c \in {"models_delete", "tasks_cancel"}
              THEN {<<TRUE, FALSE, FALSE>>, <<FALSE, TRUE, FALSE>>,
                    <<FALSE, FALSE, FALSE>>, <<FALSE, FALSE, TRUE>>}
              ELSE {<<TRUE, FALSE, FALSE>>}
        st == IF c = "workers_update" THEN StrOpt ELSE {"absent"}
        ml == IF c = "workers_update" THEN IntOpt ELSE {"absent"}
        all == {[status |-> t, id |-> i, opt1 |-> a, opt2 |-> b, source |-> s,
                 wait |-> ww, force |-> f[1], confirm |-> f[2], max_load |-> m,
                 eof |-> f[3]] :
                    i \in ids, a \in o1, b \in o2, s \in src, ww \in w, f \in fc,
                    t \in st, m \in ml}
    IN {x \in all : Cardinality(Given(x)) <= MaxGiven}

\* `if value:` on an option string
Truthy(v) == v \in {"invalid", "valid", "value"}

\* json.loads(value) raises json.JSONDecodeError
JsonLoadsFails(v) == v \in {"empty", "invalid"}

\* `if value: try: json.loads(value) except json.JSONDecodeError: ... return`
OptionRejectedNever(v) == FALSE
OptionRejected(v) == Truthy(v) /\ JsonLoadsFails(v)

\* worker_data of update_worker: the fields put into the request body
UpdateData(a) ==
    {f \in {"status", "max_load", "capabilities", "metadata"} :
        \/ f = "status" /\ Truthy(a.status)
        \/ f = "max_load" /\ a.max_load # "absent"
        \/ f = "capabilities" /\ Truthy(a.opt1)
        \/ f = "metadata" /\ Truthy(a.opt2)}

\* What the command body does before `with BitingLipClient(config)`:
\* "go" when it reaches the with statement, "abort" when click.confirm raises
\* click.Abort (end of input or interrupt at the prompt, a.eof; the prompt
\* stands before the try statement), else the message the command ends with.
PrecheckNoPrompt(c, a) ==
    CASE c = "models_register" ->
            IF ~a.source THEN "error"
            ELSE IF OptionRejected(a.opt2) THEN "error" ELSE "go"
      [] c \in {"workers_register", "tasks_create"} ->
            IF OptionRejected(a.opt1) \/ OptionRejected(a.opt2) THEN "error" ELSE "go"
      [] c = "workers_update" ->
            IF OptionRejected(a.opt1) \/ OptionRejected(a.opt2) THEN "error"
            ELSE IF UpdateData(a) = {} THEN "error" ELSE "go"
      [] c = "system_logs" -> "logs"
      [] OTHER -> "go"
Precheck(c, a) ==
    CASE c \in {"models_delete", "tasks_cancel"} ->
            IF a.force THEN "go"
            ELSE IF a.eof THEN "abort"
            ELSE IF ~a.confirm THEN "declined" ELSE "go"
      [] c = "models_register" ->
            IF ~a.source THEN "error"
            ELSE IF OptionRejected(a.opt2) THEN "error" ELSE "go"
      [] c \in {"workers_register", "tasks_create"} ->
            IF OptionRejected(a.opt1) \/ OptionRejected(a.opt2) THEN "error" ELSE "go"
      [] c = "workers_update" ->
            IF OptionRejected(a.opt1) \/ OptionRejected(a.opt2) THEN "error"
            ELSE IF UpdateData(a) = {} THEN "error" ELSE "go"
      [] c = "system_logs" -> "logs"
      [] OTHER -> "go"

\* The json= argument of the first facade call of a command, as the set of
\* its fields: worker_data for workers update; the bodies of the other
\* commands are left out.
RequestJson(c, a) == IF c = "workers_update" THEN UpdateData(a) ELSE {}

\* -------------------------------------------------------------- session
NoSession == [state |-> "none", closes |-> 0]

\* requests.Session() in BitingLipClient.__init__
ClientInit == [state |-> "open", closes |-> 0]

\* BitingLipClient.__exit__: self.session.close()
ClientExitLeak(s) == s
ClientExit(s) == [state |-> "closed", closes |-> s.closes + 1]

\* -------------------------------------------------------- configuration
\* Strings that are taken apart (URLs, endpoints) are sequences of chunks
\* with "/" a chunk of its own ("http://h/" is <<"http:", "/", "/", "h", "/">>);
\* the empty string is <<>>.  An api_key is a
\* string, "None" standing for Python's None and "" for the empty string.

\* str.rstrip("/") and str.lstrip("/")
RECURSIVE RStrip(_)
RStrip(s) == IF s # <<>> /\ s[Len(s)] = "/" THEN RStrip(SubSeq(s, 1, Len(s) - 1)) ELSE s
RECURSIVE LStrip(_)
LStrip(s) == IF s # <<>> /\ s[1] = "/" THEN LStrip(Tail(s)) ELSE s

\* the field defaults of CLIConfig
DefaultConfig == [api_url |-> <<"http:", "/", "/", "localhost:8080">>, api_timeout |-> 30,
                  api_retries |-> 3, api_key |-> "None"]

get_api_urlKeepSlashes(cfg, endpoint) ==
    IF endpoint # <<>>
    THEN RStrip(cfg.api_url) \o <<"/">> \o endpoint
    ELSE RStrip(cfg.api_url)

\* get_api_url(config, endpoint): f"{base_url}/{endpoint}"
get_api_url(cfg, endpoint) ==
    IF endpoint # <<>>
    THEN RStrip(cfg.api_url) \o <<"/">> \o LStrip(endpoint)
    ELSE RStrip(cfg.api_url)

\* `if config.api_key:`
KeyGivenNotNone(k) == k # "None"
KeyGiven(k) == k \notin {"None", ""}

\* session.headers after __init__; <<>> for a header that is not set
ClientHeaders(cfg) ==
    [content_type |-> "application/json", user_agent |-> "BitingLip-CLI/1.0.0",
     authorization |-> IF KeyGiven(cfg.api_key) THEN <<"Bearer", cfg.api_key>> ELSE <<>>]

NoHeaders == [content_type |-> "-", user_agent |-> "-", authorization |-> <<>>]

NoClient == [base_url |-> <<>>, timeout |-> 0, headers |-> NoHeaders]

\* BitingLipClient.__init__: what the object keeps besides self.config
\* (the Retry total is the variable `retries`)
NewClient(cfg) ==
    [base_url |-> cfg.api_url, timeout |-> cfg.api_timeout, headers |-> ClientHeaders(cfg)]

\* requests prepares the URL before anything is sent: a URL without scheme
\* and host is refused (MissingSchema / InvalidURL, both RequestException)
HasScheme(u) ==
    /\ Len(u) >= 4
    /\ u[1] \in {"http:", "https:"}
    /\ u[2] = "/"
    /\ u[3] = "/"

NoWire == [timeout |-> 0, headers |-> NoHeaders, url |-> <<>>, json |-> {}]

\* The arguments of session.request in _make_request.  The URL is built from
\* self.config at the time of the call, the timeout is self.timeout, the
\* headers are the session's.
RequestArgs(cfg, cl, endpoint) ==
    [timeout |-> cl.timeout, headers |-> cl.headers, url |-> get_api_url(cfg, endpoint),
     json |-> {}]

\* An option of the command line or a variable of the environment: given or
\* not, and its value when given.
NotGiven(v) == [v |-> v, given |-> FALSE]
GivenAs(v) == [v |-> v, given |-> TRUE]

NoFlags == [api_url |-> NotGiven(<<>>), api_key |-> NotGiven(""), timeout |-> NotGiven(0)]

NoEnv == [BITINGLIP_API_URL |-> NotGiven(<<>>), BITINGLIP_TIMEOUT |-> NotGiven(0),
          BITINGLIP_API_TIMEOUT |-> NotGiven(0), BITINGLIP_API_RETRIES |-> NotGiven(0),
          BITINGLIP_API_KEY |-> NotGiven("")]

\* click: the value a parameter of cli() gets from an option declared with
\* envvar=: the flag when given, else the variable, else None
ClickParam(flag, envvar) == IF flag.given THEN flag ELSE envvar

\* CLIConfig(): each field from its BITINGLIP_<FIELD> variable, else its default
LoadSettings(e) ==
    [api_url |-> IF e.BITINGLIP_API_URL.given THEN e.BITINGLIP_API_URL.v
                 ELSE DefaultConfig.api_url,
     api_timeout |-> IF e.BITINGLIP_API_TIMEOUT.given THEN e.BITINGLIP_API_TIMEOUT.v
                     ELSE DefaultConfig.api_timeout,
     api_retries |-> IF e.BITINGLIP_API_RETRIES.given THEN e.BITINGLIP_API_RETRIES.v
                     ELSE DefaultConfig.api_retries,
     api_key |-> IF e.BITINGLIP_API_KEY.given THEN e.BITINGLIP_API_KEY.v
                 ELSE DefaultConfig.api_key]

\* `if api_url:` / `if timeout:` / `if api_key:` on a parameter of cli();
\* falsy is None and the zero of the type.
ParamTruthy(p, zero) == p.given /\ p.v # zero

\* cli(): ctx.ensure_object(CLIConfig), then the overrides
Resolve(f, e) ==
    LET loaded == LoadSettings(e)
        api_url == ClickParam(f.api_url, e.BITINGLIP_API_URL)
        timeout == ClickParam(f.timeout, e.BITINGLIP_TIMEOUT)
        api_key == ClickParam(f.api_key, e.BITINGLIP_API_KEY)
    IN [api_url |-> IF ParamTruthy(api_url, <<>>) THEN api_url.v ELSE loaded.api_url,
        api_timeout |-> IF ParamTruthy(timeout, 0) THEN timeout.v ELSE loaded.api_timeout,
        api_retries |-> loaded.api_retries,
        api_key |-> IF ParamTruthy(api_key, "") THEN api_key.v ELSE loaded.api_key]

\* ------------------------------------------------------------- the state
VARIABLES
    pc,             \* "cli" (before the group callback), "start", "request"
                    \* (inside session.request), "returned", "done" (the
                    \* command returned), "propagated" (an exception left it)
    cmd,            \* the command invoked
    args,           \* its arguments
    retries,        \* the total of the Retry object mounted on the session
    session,        \* the client's requests.Session
    call,           \* the facade call in progress
    step,           \* number of facade calls started by the command
    attempts,       \* HTTP attempts sent for the call in progress
    last,           \* outcome of the latest attempt of the call
    all503,         \* every attempt of the call was answered with 503
    priorRetryable, \* every attempt before the latest got a status of the forcelist
    result,         \* how the latest _make_request ended
    sent,           \* HTTP attempts sent during the invocation
    sentClosed,     \* an attempt was sent on a session that was not open
    out,            \* messages printed by the command
    flags,          \* the global options given on the command line
    env,            \* the BITINGLIP_* variables of the environment
    config,         \* the CLIConfig object (ctx.obj)
    built,          \* history: config as it was when the client was constructed
    client,         \* what BitingLipClient.__init__ stored in the object
    wire,           \* the arguments of session.request for the call in progress
    frame           \* the locals of the helper function run on its own

vars == <<pc, cmd, args, retries, session, call, step, attempts, last, all503,
          priorRetryable, result, sent, sentClosed, out, flags, env, config,
          built, client, wire, frame>>

NoCall == [id |-> "-", facade |-> "-", method |-> "-", path |-> <<>>]

\* a facade method: the arguments it hands to _make_request
Facade(f, id) ==
    [id |-> IF FacadeTakesId(f) THEN id ELSE "-", facade |-> f,
     method |-> FacadeMethod(f), path |-> FacadePath(f, id)]

\* no helper function is being run
NoFrame == [fn |-> "-"]

\* no command has run yet
NoCommand ==
    /\ cmd = "-"
    /\ args = DefaultArgs
    /\ retries = 0
    /\ session = NoSession
    /\ call = NoCall
    /\ step = 0
    /\ attempts = 0
    /\ last = NoOutcome
    /\ all503 = TRUE
    /\ priorRetryable = TRUE
    /\ result = NoResult
    /\ sent = 0
    /\ sentClosed = FALSE
    /\ out = <<>>
    /\ built = DefaultConfig
    /\ client = NoClient
    /\ wire = NoWire

Idle ==
    /\ NoCommand
    /\ frame = NoFrame

\* cli() has run with no global option and no BITINGLIP_* variable but
\* BITINGLIP_API_RETRIES; a command is about to be invoked.
Init ==
    /\ pc = "start"
    /\ Idle
    /\ flags = NoFlags
    /\ env = NoEnv
    /\ config \in {[DefaultConfig EXCEPT !.api_retries = n] : n \in 0..MaxRetries}

\* client.<facade>(...) entered on client cl: _make_request has built the URL
\* and is about to send
StartCallWith(cl, f, id, body) ==
    /\ call' = Facade(f, id)
    /\ wire' = [RequestArgs(config, cl, FacadePath(f, id)) EXCEPT !.json = body]
    /\ step' = step + 1
    /\ attempts' = 0
    /\ last' = NoOutcome
    /\ all503' = TRUE
    /\ priorRetryable' = TRUE
    /\ result' = NoResult
    /\ pc' = "request"

StartCallOn(cl, f, id) == StartCallWith(cl, f, id, {})

StartCall(f, id) == StartCallOn(client, f, id)

\* leaving the command function after printing msgs, by returning ("done")
\* or with an exception ("propagated"): its locals are gone
Leave(to, msgs) ==
    /\ pc' = to
    /\ out' = out \o msgs
    /\ call' = NoCall
    /\ wire' = NoWire
    /\ attempts' = 0
    /\ last' = NoOutcome
    /\ all503' = TRUE
    /\ priorRetryable' = TRUE
    /\ result' = NoResult
    /\ step' = step

Finish(msgs) == Leave("done", msgs)

\* A command function is entered with its arguments and runs up to its first
\* facade call (or to its end when it never creates a client).
Invoke(c, a, n) ==
    /\ pc = "start"
    /\ cmd' = c
    /\ args' = a
    /\ n = config.api_retries
    /\ UNCHANGED <<sent, sentClosed, frame, flags, env, config, frame>>
    /\ IF Precheck(c, a) = "go"
       THEN /\ session' = ClientInit
            /\ retries' = n
            /\ client' = NewClient(config)
            /\ built' = config
            /\ StartCallWith(NewClient(config), FirstFacade(c), a.id, RequestJson(c, a))
            /\ out' = out
       ELSE /\ session' = session
            /\ UNCHANGED <<retries, client, built>>
            /\ IF Precheck(c, a) = "abort"
               THEN Leave("propagated", <<>>)
               ELSE Finish(<<Precheck(c, a)>>)

\* One HTTP attempt of the call in progress and the Retry decision after it;
\* when no further attempt follows, _make_request maps the outcome.
Attempt(o) ==
    /\ pc = "request"
    /\ HasScheme(wire.url)
    /\ wire.timeout > 0
    /\ attempts' = attempts + 1
    /\ sent' = sent + 1
    /\ sentClosed' = (sentClosed \/ session.state # "open")
    /\ last' = o
    /\ all503' = (all503 /\ o.kind = "response" /\ o.status = 503)
    /\ priorRetryable' = (priorRetryable /\
                            (last.kind = "none" \/
                             (last.kind = "response" /\ last.status \in StatusForcelist)))
    /\ IF ShouldRetry(retries, call.method, attempts + 1, o)
       THEN UNCHANGED <<pc, result>>
       ELSE /\ pc' = "returned"
            /\ result' = MakeRequestResult(o)
    /\ UNCHANGED <<cmd, args, retries, session, call, step, out, frame, flags, env, config,
                   built, client, wire>>

\* `with` block left by an exception: __exit__, then the except clauses of
\* the command (handle_api_error or error_message).
\* session.request raises before an attempt is sent: requests refuses the
\* URL (a RequestException, handled like a transport failure), or urllib3
\* refuses a timeout that is not positive (ValueError, which no except
\* clause of _make_request catches).
RefuseSend ==
    /\ pc = "request"
    /\ ~HasScheme(wire.url) \/ wire.timeout <= 0
    /\ pc' = "returned"
    /\ result' = IF ~HasScheme(wire.url) THEN HandleTransportError(NoOutcome)
                  ELSE Raise("ValueError")
    /\ UNCHANGED <<cmd, args, retries, session, call, step, attempts, last, all503,
                   priorRetryable, sent, sentClosed, out, frame, flags, env, config, built,
                   client, wire>>

ExitRaisingAgain(e) ==
    IF e = "BitingLipAPIError" /\ step <= MaxPolls
    THEN /\ StartCall(call.facade, call.id)
         /\ UNCHANGED <<out, session>>
    ELSE /\ session' = ClientExit(session)
         /\ Finish(<<IF e = "BitingLipAPIError" THEN "api_error" ELSE "error">>)
ExitRaising(e) ==
    /\ session' = ClientExit(session)
    /\ Finish(<<IF e = "BitingLipAPIError" THEN "api_error" ELSE "error">>)

\* `with` block left normally or by `return`
ExitNormally(msgs) ==
    /\ session' = ClientExit(session)
    /\ Finish(msgs)

\* result.get('id') / task_status.get('status') of a returned payload
TaskId(v) == v.src = "body" /\ v.body \in {"objId", "objCompleted", "objFailed", "objCancelled"}
TaskStatus(v) ==
    IF v.src # "body" THEN "None"
    ELSE CASE v.body = "objCompleted" -> "completed"
           [] v.body = "objFailed" -> "failed"
           [] v.body = "objCancelled" -> "cancelled"
           [] v.body = "objId" -> "running"
           [] OTHER -> "None"

\* The facade call raised: the exception leaves the with block.
ContinueRaisedPropagating ==
    /\ pc = "returned"
    /\ result.outcome = "raise"
    /\ session' = ClientExit(session)
    /\ Leave("propagated", <<>>)
    /\ UNCHANGED <<cmd, args, retries, sent, sentClosed, frame, flags, env, config, built,
                   client>>
ContinueRaised ==
    /\ pc = "returned"
    /\ result.outcome = "raise"
    /\ ExitRaising(result.exc)
    /\ UNCHANGED <<cmd, args, retries, sent, sentClosed, frame, flags, env, config, built,
                   client>>

\* A display command formats the payload it got.  A payload that is not a
\* mapping fails at the first .get / .items; with --format json the
\* format-first commands echo it before any such call.  A mapping whose
\* fields have unexpected shapes can still make the table code raise.
ContinueDisplay ==
    /\ pc = "returned"
    /\ result.outcome = "return"
    /\ cmd \in DisplayCommands
    /\ IF ~result.value.mapping
       THEN \/ ExitRaising("AttributeError")
            \/ cmd \in FormatFirstCommands /\ ExitNormally(<<"display">>)
       ELSE \/ ExitNormally(<<"display">>)
            \/ cmd \in EarlyReturnCommands /\ ExitNormally(<<"nothing_found">>)
            \/ cmd \notin {"models_show", "workers_show", "tasks_show"}
                    /\ ExitRaising("Exception")
    /\ UNCHANGED <<cmd, args, retries, sent, sentClosed, frame, flags, env, config, built,
                   client>>

\* A mutating command reports success; the payload is only echoed.
ContinueMutating ==
    /\ pc = "returned"
    /\ result.outcome = "return"
    /\ cmd \in MutatingCommands
    /\ ExitNormally(<<"success">>)
    /\ UNCHANGED <<cmd, args, retries, sent, sentClosed, frame, flags, env, config, built,
                   client>>

\* tasks create: after create_task, and after every get_task poll of --wait.
ContinueCreateTask ==
    /\ pc = "returned"
    /\ result.outcome = "return"
    /\ cmd = "tasks_create"
    /\ IF ~result.value.mapping
       THEN ExitRaising("AttributeError")
       ELSE IF step = 1
       THEN IF args.wait /\ TaskId(result.value)
            THEN /\ StartCall("get_task", "x")
                 /\ out' = out \o <<"created", "waiting">>
                 /\ session' = session
            ELSE ExitNormally(<<"created">>)
       ELSE IF TaskStatus(result.value) \in {"completed", "failed", "cancelled"}
            THEN ExitNormally(<<TaskStatus(result.value)>>)
            ELSE /\ step <= MaxPolls
                 /\ StartCall("get_task", "x")
                 /\ out' = out \o <<"progress">>
                 /\ session' = session
    /\ UNCHANGED <<cmd, args, retries, sent, sentClosed, frame, flags, env, config, built,
                   client>>

\* system info: three requests, then the info dict is built, which reads
\* config.environment; CLIConfig declares no such field.
ContinueSystemInfoEager ==
    /\ pc \in {"request", "returned"}
    /\ pc = "returned" => result.outcome = "return"
    /\ cmd = "system_info"
    /\ IF step = 1
       THEN /\ StartCall("get_health_check", "-")
            /\ UNCHANGED <<out, session>>
       ELSE IF step = 2
       THEN /\ StartCall("get_cluster_status", "-")
            /\ UNCHANGED <<out, session>>
       ELSE ExitRaising("AttributeError")
    /\ UNCHANGED <<cmd, args, retries, sent, sentClosed, frame, flags, env, config, built,
                   client>>
ContinueSystemInfo ==
    /\ pc = "returned"
    /\ result.outcome = "return"
    /\ cmd = "system_info"
    /\ IF step = 1
       THEN /\ StartCall("get_health_check", "-")
            /\ UNCHANGED <<out, session>>
       ELSE IF step = 2
       THEN /\ StartCall("get_cluster_status", "-")
            /\ UNCHANGED <<out, session>>
       ELSE ExitRaising("AttributeError")
    /\ UNCHANGED <<cmd, args, retries, sent, sentClosed, frame, flags, env, config, built,
                   client>>

Next ==
    \/ \E c \in Commands : \E a \in ArgsFor(c) : \E n \in 0..MaxRetries : Invoke(c, a, n)
    \/ \E o \in Outcomes : Attempt(o)
    \/ ContinueRaised
    \/ ContinueDisplay
    \/ ContinueMutating
    \/ ContinueCreateTask
    \/ ContinueSystemInfo

Spec == Init /\ [][Next]_vars

\* ------------------------------------- a session and a changing config
\* The configurations explored for a session whose CLIConfig object is
\* assigned to while the client exists.
Configs ==
    [api_url : {<<"http:", "/", "/", "localhost:8080">>, <<"http:", "/", "/", "gateway:9000", "/">>},
     api_timeout : {30, 60},
     api_retries : {0, 1},
     api_key : {"None", "", "secret"}]

\* the gateway answers explored in the additional specifications
FewOutcomes ==
    {[kind |-> "response", status |-> 200, body |-> "obj"],
     [kind |-> "response", status |-> 503, body |-> "text"],
     [kind |-> "response", status |-> 404, body |-> "objDetail"],
     [kind |-> "connect_error", status |-> NoStatus, body |-> "-"]}

ConfigInit ==
    /\ pc = "start"
    /\ Idle
    /\ flags = NoFlags
    /\ env = NoEnv
    /\ config \in Configs

\* config.<field> = v by any holder of the object while the client exists
\* (CLIConfig is a mutable settings object; cli() itself assigns its fields)
MutateConfig(field, v) ==
    /\ pc \in {"request", "returned"}
    /\ config[field] # v
    /\ config' = [config EXCEPT ![field] = v]
    /\ UNCHANGED <<pc, cmd, args, retries, session, call, step, attempts, last, all503,
                   priorRetryable, result, sent, sentClosed, out, frame, flags, env, built,
                   client, wire>>

ConfigNext ==
    \/ Invoke("system_info", DefaultArgs, config.api_retries)
    \/ \E o \in FewOutcomes : Attempt(o)
    \/ ContinueRaised
    \/ ContinueSystemInfo
    \/ \E c \in Configs : \E field \in DOMAIN c : MutateConfig(field, c[field])

ConfigSpec == ConfigInit /\ [][ConfigNext]_vars

\* ------------------------------------------ resolving the configuration
\* The global options and environment variables explored.
FlagValues ==
    [api_url : {NotGiven(<<>>), GivenAs(<<>>), GivenAs(<<"http:", "/", "/", "flag:8081">>)},
     api_key : {NotGiven(""), GivenAs(""), GivenAs("flag-key")},
     timeout : {NotGiven(0), GivenAs(0), GivenAs(60)}]

EnvValues ==
    [BITINGLIP_API_URL : {NotGiven(<<>>), GivenAs(<<"http:", "/", "/", "env:8082">>),
                          GivenAs(<<"not a url">>)},
     BITINGLIP_TIMEOUT : {NotGiven(0), GivenAs(45)},
     BITINGLIP_API_TIMEOUT : {NotGiven(0), GivenAs(50), GivenAs(-5)},
     BITINGLIP_API_RETRIES : {NotGiven(0), GivenAs(1), GivenAs(-1)},
     BITINGLIP_API_KEY : {NotGiven(""), GivenAs("env-key")}]

\* The process has started; the group callback cli() has not run yet.
ResolveInit ==
    /\ pc = "cli"
    /\ Idle
    /\ flags \in FlagValues
    /\ env \in EnvValues
    /\ config = DefaultConfig

\* the group callback cli(): afterwards ctx.obj is the resolved configuration
Cli ==
    /\ pc = "cli"
    /\ config' = Resolve(flags, env)
    /\ pc' = "start"
    /\ UNCHANGED <<cmd, args, retries, session, call, step, attempts, last, all503,
                   priorRetryable, result, sent, sentClosed, out, frame, flags, env, built,
                   client, wire>>

ResolveNext ==
    \/ Cli
    \/ Invoke("models_download", DefaultArgs, config.api_retries)
    \/ \E o \in FewOutcomes : Attempt(o)
    \/ RefuseSend
    \/ ContinueRaised
    \/ ContinueMutating

ResolveSpec == ResolveInit /\ [][ResolveNext]_vars

\* ------------------------------------------------- get_api_url on its own
\* a helper function run on its own touches no state of a command
CommandUnchanged ==
    UNCHANGED <<pc, cmd, args, retries, session, call, step, attempts, last, all503,
                priorRetryable, result, sent, sentClosed, out, flags, env, config,
                built, client, wire>>

\* n times "/"
Slashes(n) == [i \in 1..n |-> "/"]

\* base URLs without their trailing slashes, endpoints without their
\* leading slashes
BaseCores == {<<"http:", "/", "/", "host:8080">>,
              <<"http:", "/", "/", "host:8080", "/", "v1">>,
              <<"host">>}
EndpointCores == {<<>>, <<"health">>, <<"api", "/", "models">>,
                  <<"api", "/", "models", "/">>}

\* get_api_url is about to be called with a base URL and an endpoint that
\* carry up to MaxSlashes extra separators
UrlInit ==
    /\ pc = "helper"
    /\ NoCommand
    /\ flags = NoFlags
    /\ env = NoEnv
    /\ config = DefaultConfig
    /\ \E b \in BaseCores, p \in EndpointCores, i, j \in 0..MaxSlashes :
          frame = [endpoint |-> Slashes(j) \o p, fn |-> "get_api_url", at |-> "call",
                   core |-> b, rest |-> p, base |-> b \o Slashes(i), ret |-> <<>>]

get_api_urlCall ==
    /\ frame.fn = "get_api_url"
    /\ frame.at = "call"
    /\ frame' = [frame EXCEPT
                   !.at = "return",
                   !.ret = get_api_url([DefaultConfig EXCEPT !.api_url = frame.base],
                                       frame.endpoint)]
    /\ CommandUnchanged

UrlNext == get_api_urlCall

UrlSpec == UrlInit /\ [][UrlNext]_vars

\* ------------------------------------------ wait_for_completion on its own
TimedOutStrict(elapsed, max_wait) == elapsed > max_wait

\* `if elapsed >= max_wait: return False`
TimedOut(elapsed, max_wait) == elapsed >= max_wait

\* wait_for_completion has been entered and start_time taken; check_func
\* answers True or False
WaitInit ==
    /\ pc = "helper"
    /\ NoCommand
    /\ flags = NoFlags
    /\ env = NoEnv
    /\ config = DefaultConfig
    /\ \E w \in -1..3, i \in 1..2, cb \in BOOLEAN :
          frame = [fn |-> "wait_for_completion", at |-> "check", ret |-> "-",
                   elapsed |-> 0, max_wait |-> w, check_interval |-> i,
                   progress_callback |-> cb, clock |-> 0, checks |-> 0,
                   truthy |-> FALSE, anyTrue |-> FALSE, reports |-> 0]

\* `if check_func(): return True`; the call takes d seconds
CheckFunc(b, d) ==
    /\ frame.fn = "wait_for_completion"
    /\ frame.at = "check"
    /\ frame.clock + d <= MaxClock
    /\ frame' = [frame EXCEPT
                   !.at = IF b THEN "return" ELSE "elapsed",
                   !.ret = IF b THEN "True" ELSE "-",
                   !.clock = frame.clock + d,
                   !.checks = frame.checks + 1,
                   !.truthy = b,
                   !.anyTrue = frame.anyTrue \/ b]
    /\ CommandUnchanged

\* elapsed = now - start_time; `if elapsed >= max_wait: return False`
ReadElapsed ==
    /\ frame.fn = "wait_for_completion"
    /\ frame.at = "elapsed"
    /\ frame' = [frame EXCEPT
                   !.at = IF TimedOut(frame.clock, frame.max_wait) THEN "return"
                          ELSE IF frame.progress_callback THEN "callback" ELSE "sleep",
                   !.ret = IF TimedOut(frame.clock, frame.max_wait) THEN "False" ELSE "-",
                   !.elapsed = frame.clock]
    /\ CommandUnchanged

\* progress_callback(elapsed, max_wait)
ProgressCallback ==
    /\ frame.fn = "wait_for_completion"
    /\ frame.at = "callback"
    /\ frame' = [frame EXCEPT !.at = "sleep", !.reports = frame.reports + 1]
    /\ CommandUnchanged

\* time.sleep(check_interval)
Sleep ==
    /\ frame.fn = "wait_for_completion"
    /\ frame.at = "sleep"
    /\ frame.clock + frame.check_interval <= MaxClock
    /\ frame' = [frame EXCEPT !.at = "check",
                               !.clock = frame.clock + frame.check_interval]
    /\ CommandUnchanged

WaitNext ==
    \/ \E b \in BOOLEAN, d \in 0..1 : CheckFunc(b, d)
    \/ ReadElapsed
    \/ ProgressCallback
    \/ Sleep

WaitSpec == WaitInit /\ [][WaitNext]_vars

\* ---------------------------------- print_table_with_pagination on its own
TotalPagesFloor(n, page_size) == n \div page_size

\* `total_pages = (len(data) + page_size - 1) // page_size`
TotalPages(n, page_size) == (n + page_size - 1) \div page_size

\* print_table_with_pagination has been called with a list of rows (row i
\* is the number i) and a page_size >= 1
PageInit ==
    /\ pc = "helper"
    /\ NoCommand
    /\ flags = NoFlags
    /\ env = NoEnv
    /\ config = DefaultConfig
    /\ \E n \in 0..MaxRows, k \in 1..MaxPageSize :
          frame = [fn |-> "print_table_with_pagination", at |-> "entry",
                   page_size |-> k, data |-> [i \in 1..n |-> i], total_pages |-> 0,
                   current_page |-> 0, shown |-> <<>>, pages |-> 0, prompts |-> 0,
                   answer |-> "-"]

\* `if not data: ... return`, else total_pages and current_page are set
EnterPagination ==
    /\ frame.fn = "print_table_with_pagination"
    /\ frame.at = "entry"
    /\ frame' = IF frame.data = <<>>
                THEN [frame EXCEPT !.at = "return"]
                ELSE [frame EXCEPT
                        !.at = "page",
                        !.total_pages = TotalPages(Len(frame.data), frame.page_size),
                        !.current_page = 1]
    /\ CommandUnchanged

\* one turn of the loop up to the prompt: the slice of the current page is
\* printed; `if current_page >= total_pages: break`
PrintPage ==
    /\ frame.fn = "print_table_with_pagination"
    /\ frame.at = "page"
    /\ LET start_idx == (frame.current_page - 1) * frame.page_size
           end_idx == IF start_idx + frame.page_size < Len(frame.data)
                      THEN start_idx + frame.page_size ELSE Len(frame.data)
       IN frame' = [frame EXCEPT
                      !.at = IF frame.current_page >= frame.total_pages
                             THEN "return" ELSE "prompt",
                      !.shown = frame.shown \o SubSeq(frame.data, start_idx + 1, end_idx),
                      !.pages = frame.pages + 1]
    /\ CommandUnchanged

\* click.confirm("Show next page?", default=True): yes goes on to the next
\* page, no leaves the loop, end of input raises click.Abort
ConfirmNextPage(ans) ==
    /\ frame.fn = "print_table_with_pagination"
    /\ frame.at = "prompt"
    /\ frame' = [frame EXCEPT
                   !.at = CASE ans = "yes" -> "page"
                            [] ans = "no" -> "return"
                            [] OTHER -> "raised",
                   !.current_page = IF ans = "yes" THEN frame.current_page + 1
                                    ELSE frame.current_page,
                   !.prompts = frame.prompts + 1,
                   !.answer = ans]
    /\ CommandUnchanged

PageNext ==
    \/ EnterPagination
    \/ PrintPage
    \/ \E ans \in {"yes", "no", "abort"} : ConfirmNextPage(ans)

PageSpec == PageInit /\ [][PageNext]_vars

\* ------------------------------------- the legacy ModelManagementClient
LegacyMethods == {"GET", "POST", "DELETE"}

\* Retry(total=config.api_retries, status_forcelist=[429, 500, 502, 503, 504],
\* allowed_methods=["HEAD", "GET", "PUT", "DELETE", "OPTIONS", "TRACE"]):
\* the policy of BitingLipClient with its method list spelled out
LegacyShouldRetry(n, m, made, o) == ShouldRetry(n, m, made, o)

\* Retry is built without raise_on_status=False: a status of the forcelist
\* on a method of the list ends, once no retry is left, in MaxRetryError,
\* which requests raises as RetryError
RetriesExhausted(m, o) ==
    /\ o.kind = "response"
    /\ m \in AllowedMethods
    /\ o.status \in StatusForcelist

\* what _make_request ends with after the last attempt o of a request with
\* method m
LegacyResult(m, o) ==
    CASE IsFailure(o) \/ RetriesExhausted(m, o) ->
            [outcome |-> "raise", exc |-> "APIError", status_code |-> NoStatus]
      [] o.status >= 400 /\ IsJSON(o.body) /\ ~IsObject(o.body) ->
            [outcome |-> "raise", exc |-> "AttributeError", status_code |-> NoStatus]
      [] o.status >= 400 ->
            [outcome |-> "raise", exc |-> "APIError", status_code |-> o.status]
      [] OTHER ->
            [outcome |-> "return", exc |-> "-", status_code |-> NoStatus]

NoLegacyResult == [outcome |-> "none", exc |-> "-", status_code |-> NoStatus]

\* ModelManagementClient(...) is about to be constructed; the module-level
\* config object declares api_retries or, as src/config.py has it, does not
LegacyInit ==
    /\ pc = "helper"
    /\ NoCommand
    /\ flags = NoFlags
    /\ env = NoEnv
    /\ config = DefaultConfig
    /\ \E d \in BOOLEAN, n \in 0..MaxRetries :
          frame = [made |-> 0, fn |-> "ModelManagementClient", at |-> "init",
                   answer |-> NoOutcome, declared |-> d, total |-> n, verb |-> "-",
                   raised |-> NoLegacyResult]

\* __init__ reads config.api_retries
LegacyConstruct ==
    /\ frame.fn = "ModelManagementClient"
    /\ frame.at = "init"
    /\ frame' = IF frame.declared
                THEN [frame EXCEPT !.at = "ready"]
                ELSE [frame EXCEPT
                        !.at = "failed",
                        !.raised = [outcome |-> "raise", exc |-> "AttributeError",
                                    status_code |-> NoStatus]]
    /\ CommandUnchanged

\* a facade calls _make_request(method, ...)
LegacyCall(m) ==
    /\ frame.fn = "ModelManagementClient"
    /\ frame.at = "ready"
    /\ frame' = [frame EXCEPT !.at = "request", !.verb = m, !.made = 0]
    /\ CommandUnchanged

\* one HTTP attempt inside session.request, then the rest of _make_request
\* when no further attempt follows
LegacyAttempt(o) ==
    /\ frame.fn = "ModelManagementClient"
    /\ frame.at = "request"
    /\ frame' = IF LegacyShouldRetry(frame.total, frame.verb, frame.made + 1, o)
                THEN [frame EXCEPT !.made = frame.made + 1, !.answer = o]
                ELSE [frame EXCEPT !.at = "returned",
                                   !.made = frame.made + 1,
                                   !.answer = o,
                                   !.raised = LegacyResult(frame.verb, o)]
    /\ CommandUnchanged

LegacyNext ==
    \/ LegacyConstruct
    \/ \E m \in LegacyMethods : LegacyCall(m)
    \/ \E o \in Outcomes : LegacyAttempt(o)

LegacySpec == LegacyInit /\ [][LegacyNext]_vars

\* ================================================================ claims

\* C1: a final response whose status is not 200, 201 or 204 makes
\* _make_request raise BitingLipAPIError with that status_code and with the
\* decoded body (None when the body is not JSON) as response, whatever the
\* body is; no other exception type is raised.
C1_ErrorStatusRaisesApiError ==
    (pc = "returned" /\ last.kind = "response" /\ last.status \notin {200, 201, 204})
        => /\ result.outcome = "raise"
           /\ result.exc = "BitingLipAPIError"
           /\ result.status_code = last.status
           /\ result.response = IF last.body = "text" THEN NoPayload ELSE Decoded(last.body)

\* C2: when the transport raises instead of returning a response,
\* _make_request raises BitingLipAPIError with status_code None and a
\* message starting with "Request failed: "; no transport exception reaches
\* the caller.
C2_TransportFailureNormalized ==
    (pc = "returned" /\ last.kind \in {"connect_error", "read_error"})
        => /\ result.outcome = "raise"
           /\ result.exc = "BitingLipAPIError"
           /\ result.status_code = NoStatus
           /\ result.message.form = "request_failed"

\* C2 witness: a call that ended on a connection failure after retries
C2_Witness ==
    /\ pc = "returned"
    /\ last.kind = "connect_error"
    /\ attempts = retries + 1
    /\ attempts > 1
    /\ result.exc = "BitingLipAPIError"

\* C3: every _make_request ends either by returning a mapping or by raising
\* BitingLipAPIError; it never returns a value that is not a mapping.
C3_MappingOrApiError ==
    pc = "returned"
        => \/ result.outcome = "return" /\ result.value.mapping
           \/ result.outcome = "raise" /\ result.exc = "BitingLipAPIError"

\* C4 as stated: with api_retries = n, a call of any facade (GET, POST, PUT
\* or DELETE) that is answered 503 on every attempt ends after exactly n + 1
\* attempts with a BitingLipAPIError.
C4_Original ==
    (pc = "returned" /\ all503)
        => /\ attempts = retries + 1
           /\ result.outcome = "raise"
           /\ result.exc = "BitingLipAPIError"

\* C4 amended: a call answered 503 on every attempt ends after exactly
\* n + 1 attempts when the facade uses GET, PUT or DELETE and after exactly
\* one attempt when it uses POST; it then raises BitingLipAPIError with
\* status_code 503, or AttributeError when the last body is JSON that is not
\* an object.
C4_Always503AttemptsByMethod ==
    (pc = "returned" /\ all503)
        => /\ attempts = IF call.method = "POST" THEN 1 ELSE retries + 1
           /\ result.outcome = "raise"
           /\ IF last.body \in {"arr", "str", "null"}
              THEN result.exc = "AttributeError"
              ELSE result.exc = "BitingLipAPIError" /\ result.status_code = 503

\* C4 witness: a DELETE answered 503 three times with api_retries = 2
C4_Witness ==
    /\ pc = "returned"
    /\ all503
    /\ call.method = "DELETE"
    /\ retries = 2
    /\ attempts = 3
    /\ result.exc = "BitingLipAPIError"
    /\ result.status_code = 503

\* C5: a response with status 400, 401, 403, 404, 409 or 422 ends the call
\* at that attempt: no retry is sent, and a BitingLipAPIError with that
\* status_code is raised.
C5_NonRetryable4xxFailsAtOnce ==
    (last.kind = "response" /\ last.status \in {400, 401, 403, 404, 409, 422})
        => /\ pc = "returned"
           /\ result.outcome = "raise"
           /\ result.exc = "BitingLipAPIError"
           /\ result.status_code = last.status

C7_SuccessAfterRetries ==
    (last.kind = "response" /\ last.status = 200 /\ priorRetryable)
        => /\ pc = "returned"
           /\ result.outcome = "return"
           /\ result.exc = "-"
           /\ result.value = IF last.body = "text"
                             THEN Synth("response.text", last.body)
                             ELSE Decoded(last.body)

\* C7 witness: list_models with api_retries = 2 answered 500, 500, 200
C7_Witness ==
    /\ pc = "returned"
    /\ call.facade = "list_models"
    /\ retries = 2
    /\ attempts = 3
    /\ priorRetryable
    /\ last.status = 200
    /\ last.body = "obj"
    /\ result.outcome = "return"

\* C8: the session of a command is closed exactly once, after the last
\* request and on every way out of the command; no request is sent on a
\* session that is not open.
C8_SessionClosedExactlyOnce ==
    /\ session.closes <= 1
    /\ ~sentClosed
    /\ pc \in {"request", "returned"} => session.state = "open"
    /\ (pc = "done" /\ session.state # "none")
            => session.state = "closed" /\ session.closes = 1
    /\ sent > 0 => session.state # "none"

\* C8 witness: a command that ended on an API error after several requests
C8_Witness ==
    /\ pc = "done"
    /\ cmd = "tasks_create"
    /\ step >= 2
    /\ out[Len(out)] = "api_error"
    /\ session = [state |-> "closed", closes |-> 1]

\* C9: worker registration with an empty name, and get / update / delete /
\* cancel operations with an empty id, fail before any HTTP request is sent.
C9_EmptyIdentifierSendsNothing ==
    (/\ cmd \in {"workers_register", "workers_update", "models_show", "workers_show",
                 "tasks_show", "models_delete", "tasks_cancel"}
     /\ args.id = "")
        => sent = 0

\* C10 as stated: in workers register, workers update, tasks create and
\* models register, a JSON-valued option that is not valid JSON ends the
\* command with an error report, without a client session and without any
\* HTTP request.
C10_Original ==
    (/\ cmd \in {"workers_register", "workers_update", "tasks_create", "models_register"}
     /\ \/ args.opt1 \in {"empty", "invalid"}
        \/ args.opt2 \in {"empty", "invalid"})
        => /\ session.state = "none"
           /\ sent = 0
           /\ pc = "done"
           /\ out = <<"error">>

\* C10 amended: in those commands a JSON-valued option given as a non-empty
\* string that is not valid JSON ends the command with an error report,
\* without a client session and without any HTTP request.
C10_InvalidJsonOptionRejected ==
    (/\ cmd \in {"workers_register", "workers_update", "tasks_create", "models_register"}
     /\ \/ args.opt1 = "invalid"
        \/ args.opt2 = "invalid")
        => /\ session.state = "none"
           /\ sent = 0
           /\ pc = "done"
           /\ out = <<"error">>

\* C10 witness: tasks create with valid --input and malformed --metadata
C10_Witness ==
    /\ pc = "done"
    /\ cmd = "tasks_create"
    /\ args.opt1 = "valid"
    /\ args.opt2 = "invalid"
    /\ out = <<"error">>
    /\ session.state = "none"

\* C11: once a facade call has raised BitingLipAPIError, the invocation sends
\* no further HTTP attempt and starts no further facade call: the command
\* goes from the raised call to its end, and nothing is sent after the end.
C11_NoRequestAfterApiError ==
    [][(\/ pc = "done"
        \/ pc = "returned" /\ result.outcome = "raise"
                /\ result.exc = "BitingLipAPIError")
        => /\ sent' = sent
           /\ step' = step
           /\ pc' \in {"returned", "done"}]_vars

\* C11 witness: system info ended after its first request raised
\* BitingLipAPIError; the two remaining requests were never made
C11_Witness ==
    /\ pc = "done"
    /\ cmd = "system_info"
    /\ step = 1
    /\ sent >= 1
    /\ out = <<"api_error">>

\* C12: a facade call is one _make_request whose method and endpoint are
\* those of the operation and its identifier argument, and the URL requested
\* is the base URL followed by that endpoint; while the call lasts, the
\* request stays that one.
C12_FacadeIsOneFixedRequest ==
    /\ [](pc \in {"request", "returned"} =>
            LET id == call.id
                expected ==
                  CASE call.facade = "get_system_status" -> <<"GET", <<"api", "/", "system", "/", "status">>>>
                    [] call.facade = "get_health_check" -> <<"GET", <<"api", "/", "health">>>>
                    [] call.facade = "list_models" -> <<"GET", <<"api", "/", "models">>>>
                    [] call.facade = "get_model" -> <<"GET", <<"api", "/", "models", "/", id>>>>
                    [] call.facade = "create_model" -> <<"POST", <<"api", "/", "models">>>>
                    [] call.facade = "update_model" -> <<"PUT", <<"api", "/", "models", "/", id>>>>
                    [] call.facade = "delete_model" -> <<"DELETE", <<"api", "/", "models", "/", id>>>>
                    [] call.facade = "list_workers" -> <<"GET", <<"api", "/", "workers">>>>
                    [] call.facade = "get_worker" -> <<"GET", <<"api", "/", "workers", "/", id>>>>
                    [] call.facade = "register_worker" -> <<"POST", <<"api", "/", "workers">>>>
                    [] call.facade = "update_worker" -> <<"PUT", <<"api", "/", "workers", "/", id>>>>
                    [] call.facade = "list_tasks" -> <<"GET", <<"api", "/", "tasks">>>>
                    [] call.facade = "get_task" -> <<"GET", <<"api", "/", "tasks", "/", id>>>>
                    [] call.facade = "create_task" -> <<"POST", <<"api", "/", "tasks">>>>
                    [] call.facade = "cancel_task" ->
                          <<"POST", <<"api", "/", "tasks", "/", id, "/", "cancel">>>>
                    [] call.facade = "get_cluster_status" -> <<"GET", <<"api", "/", "cluster", "/", "status">>>>
                    [] call.facade = "get_cluster_health" -> <<"GET", <<"api", "/", "cluster", "/", "health">>>>
                    [] call.facade = "download_model" -> <<"POST", <<"api", "/", "models", "/", "download">>>>
                    [] call.facade = "assign_model" ->
                          <<"POST", <<"api", "/", "models", "/", id, "/", "assign">>>>
                    [] call.facade = "unload_model" ->
                          <<"POST", <<"api", "/", "models", "/", id, "/", "unload">>>>
            IN /\ call.method = expected[1]
               /\ call.path = <<"/">> \o expected[2]
               /\ wire.url = <<"http:", "/", "/", "localhost:8080", "/">> \o expected[2])
    /\ [][(pc = "request" /\ step' = step /\ pc' # "done")
            => (call' = call /\ wire' = wire)]_vars

\* C12 witness: cancel_task("x") has returned after one POST
C12_Witness ==
    /\ pc = "returned"
    /\ call.facade = "cancel_task"
    /\ call.id = "x"
    /\ call.method = "POST"
    /\ sent = 1

\* C13: a facade call is started only when none is in progress (at the
\* start of the command, or after the previous call has returned a payload),
\* calls are numbered in the order they are started, and every HTTP attempt
\* belongs to the one call in progress.
C13_OneRequestAtATime ==
    [][/\ step' # step =>
            /\ step' = step + 1
            /\ pc \in {"start", "returned"}
            /\ pc = "returned" => result.outcome = "return"
            /\ pc' = "request"
            /\ attempts' = 0
       /\ sent' # sent =>
            /\ pc = "request"
            /\ step' = step
            /\ call' = call]_vars

\* C13 witness: the third request of system info is being sent, the first
\* two have returned
C13_Witness ==
    /\ cmd = "system_info"
    /\ step = 3
    /\ pc = "request"
    /\ attempts >= 1
    /\ call.facade = "get_cluster_status"

\* C14: every request (every attempt of every call of the session) carries
\* Content-Type application/json and User-Agent BitingLip-CLI/1.0.0, and
\* carries Authorization "Bearer <api_key>" exactly when the configuration
\* held a non-empty api_key at the time the client was constructed; a
\* later change of the configuration changes no header.
C14_FixedHeaders ==
    /\ [](pc \in {"request", "returned"} =>
            /\ wire.headers.content_type = "application/json"
            /\ wire.headers.user_agent = "BitingLip-CLI/1.0.0"
            /\ built.api_key \in {"None", ""} => wire.headers.authorization = <<>>
            /\ built.api_key \notin {"None", ""}
                    => wire.headers.authorization = <<"Bearer", built.api_key>>)
    /\ [][(pc \in {"request", "returned"} /\ pc' \in {"request", "returned"})
            => wire'.headers = wire.headers]_vars

\* C14 witness: a retry attempt of the second call of a session built with
\* api_key "secret", sent after config.api_key was set to None
C14_Witness ==
    /\ pc = "request"
    /\ step = 2
    /\ attempts >= 1
    /\ built.api_key = "secret"
    /\ config.api_key = "None"
    /\ wire.headers.authorization = <<"Bearer", "secret">>

\* C15: the URL, timeout, retry total and credential of every request of a
\* client are those of the configuration at the time the client was
\* constructed, whatever is assigned to the configuration afterwards.
C15_ConfigFrozenAtConstruction ==
    pc \in {"request", "returned"} =>
        /\ wire.url = RStrip(built.api_url) \o <<"/">> \o LStrip(call.path)
        /\ wire.timeout = built.api_timeout
        /\ retries = built.api_retries
        /\ wire.headers.authorization =
              IF built.api_key \in {"None", ""} THEN <<>> ELSE <<"Bearer", built.api_key>>

\* C16: after cli() the configuration holds, for base URL, timeout and
\* credential, the flag value when the flag was given (whatever the value),
\* else the value of the environment when set, else the default
\* (http://localhost:8080, 30, no key; retries 3 unless the environment
\* sets them).
C16_FlagThenEnvThenDefault ==
    pc # "cli" =>
        /\ config.api_url =
              IF flags.api_url.given THEN flags.api_url.v
              ELSE IF env.BITINGLIP_API_URL.given THEN env.BITINGLIP_API_URL.v
              ELSE <<"http:", "/", "/", "localhost:8080">>
        /\ config.api_timeout =
              IF flags.timeout.given THEN flags.timeout.v
              ELSE IF env.BITINGLIP_TIMEOUT.given THEN env.BITINGLIP_TIMEOUT.v
              ELSE IF env.BITINGLIP_API_TIMEOUT.given THEN env.BITINGLIP_API_TIMEOUT.v
              ELSE 30
        /\ config.api_key =
              IF flags.api_key.given THEN flags.api_key.v
              ELSE IF env.BITINGLIP_API_KEY.given THEN env.BITINGLIP_API_KEY.v
              ELSE "None"
        /\ config.api_retries =
              IF env.BITINGLIP_API_RETRIES.given THEN env.BITINGLIP_API_RETRIES.v ELSE 3

\* C17: when the resolved configuration has a base URL that is not a URL, a
\* timeout that is not positive or a negative retry count, the invocation
\* constructs no client and sends no request.
C17_InvalidConfigStopsEarly ==
    (/\ pc # "cli"
     /\ \/ config.api_url = <<"not a url">>
        \/ config.api_timeout <= 0
        \/ config.api_retries < 0)
        => /\ client = NoClient
           /\ session = NoSession
           /\ sent = 0

\* C18: a 200 or 201 response makes _make_request return, never raise: the
\* decoded body when the body is JSON, else {"message": <body text>} for
\* 200 and {"message": "Created successfully"} for 201.
C18_SuccessBodyDecoding ==
    (pc = "returned" /\ last.kind = "response" /\ last.status \in {200, 201}) =>
        /\ result.outcome = "return"
        /\ result.exc = "-"
        /\ last.body # "text" =>
              result.value = [body |-> last.body, mapping |-> IsObject(last.body),
                              src |-> "body", message |-> "-"]
        /\ (last.body = "text" /\ last.status = 200) =>
              result.value = [body |-> "text", mapping |-> TRUE, src |-> "synth",
                              message |-> "response.text"]
        /\ (last.body = "text" /\ last.status = 201) =>
              result.value = [body |-> "-", mapping |-> TRUE, src |-> "synth",
                              message |-> "Created successfully"]

\* C18 witness: create_task answered 201 with a body that is not JSON
C18_Witness ==
    /\ pc = "returned"
    /\ call.facade = "create_task"
    /\ last.kind = "response"
    /\ last.status = 201
    /\ last.body = "text"
    /\ result.outcome = "return"
    /\ result.value.message = "Created successfully"

\* C19: a 204 response makes _make_request return {"message": "Success"},
\* a payload that holds nothing of the response body, whatever the body is.
C19_NoContentIsSuccess ==
    (pc = "returned" /\ last.kind = "response" /\ last.status = 204) =>
        /\ result.outcome = "return"
        /\ result.exc = "-"
        /\ result.value = [body |-> "-", mapping |-> TRUE, src |-> "synth",
                            message |-> "Success"]

\* C19 witness: delete_model answered 204 with a JSON object as body
C19_Witness ==
    /\ pc = "returned"
    /\ call.facade = "delete_model"
    /\ last.kind = "response"
    /\ last.status = 204
    /\ last.body = "objDetail"
    /\ result.value.message = "Success"

\* C20: for an error response whose body is a JSON object or is not JSON,
\* the call raises BitingLipAPIError with the status code and a string
\* message: the detail field when the object has one, else
\* "HTTP <code>: <reason>".
C20_ErrorMessageIsString ==
    (/\ pc = "returned"
     /\ last.kind = "response"
     /\ last.status >= 400
     /\ last.body \notin {"arr", "str", "null"})
        => /\ result.outcome = "raise"
           /\ result.exc = "BitingLipAPIError"
           /\ result.status_code = last.status
           /\ last.body \in {"objDetail", "objDetailList"} =>
                 /\ result.message = [body |-> last.body, form |-> "detail", code |-> NoStatus]
                 /\ result.message.body = "objDetail"
           /\ last.body \notin {"objDetail", "objDetailList"} =>
                 result.message = [body |-> "-", form |-> "http", code |-> last.status]

\* C22: once an attempt of a POST facade call has been answered with an
\* HTTP response, whatever its status, the call is over: no further attempt
\* of that call is sent.
C22_PostNotResentAfterResponse ==
    /\ []((call.method = "POST" /\ last.kind = "response") => pc = "returned")
    /\ [][(call.method = "POST" /\ last.kind = "response")
            => ~(call' = call /\ attempts' > attempts)]_vars

\* C22 witness: create_task with api_retries >= 1 answered 503 once; the
\* call ended after that single attempt
C22_Witness ==
    /\ pc = "returned"
    /\ call.facade = "create_task"
    /\ retries >= 1
    /\ last.kind = "response"
    /\ last.status = 503
    /\ attempts = 1
    /\ sent = 1

\* C23: tasks create --wait leaves its poll loop only when a poll raised or
\* returned a task whose status is completed, failed or cancelled, and then
\* prints the message of that status.
C23_WaitLoopLeftOnTerminalStatusOrRaise ==
    [][(/\ cmd = "tasks_create"
        /\ step >= 2
        /\ pc = "returned"
        /\ pc' \in {"done", "propagated"})
        => \/ result.outcome = "raise"
           \/ /\ result.outcome = "return"
              /\ result.value.body \in {"objCompleted", "objFailed", "objCancelled"}
              /\ pc' = "done"
              /\ out' = out \o <<CASE result.value.body = "objCompleted" -> "completed"
                                    [] result.value.body = "objFailed" -> "failed"
                                    [] OTHER -> "cancelled">>]_vars

\* C24: models delete and tasks cancel create a client and send a request
\* only with --force or after an affirmative answer at the prompt; when the
\* user declines, the command ends with no client session and nothing sent.
C24_DestructiveNeedsConsent ==
    cmd \in {"models_delete", "tasks_cancel"} =>
        /\ (sent >= 1 \/ session # [state |-> "none", closes |-> 0] \/ pc = "request")
                => (args.force \/ args.confirm)
        /\ (~args.force /\ ~args.confirm /\ ~args.eof /\ pc # "start")
                => /\ pc = "done"
                   /\ out = <<"declined">>
                   /\ sent = 0
                   /\ session = [state |-> "none", closes |-> 0]

\* C24 witness: models delete without --force, declined at the prompt
C24_Witness ==
    /\ cmd = "models_delete"
    /\ ~args.force
    /\ ~args.confirm
    /\ ~args.eof
    /\ pc = "done"
    /\ out = <<"declined">>
    /\ sent = 0

\* C25 as stated: no invocation ends with an exception leaving the command
\* function.
C25_Original ==
    pc # "propagated"

\* C25 amended: a failure raised inside the try statement of a command (by a
\* facade call or by the code that handles its payload) makes the command
\* print one error report and return; an invocation prints at most one
\* error report; the only exception that leaves a command function is
\* click.Abort from the confirmation prompt of models delete and tasks
\* cancel, raised before any client exists.
C25_FailuresInTryReported ==
    /\ [][(pc = "returned" /\ result.outcome = "raise")
            => /\ pc' = "done"
               /\ out' = out \o <<IF result.exc = "BitingLipAPIError"
                                   THEN "api_error" ELSE "error">>]_vars
    /\ [](Cardinality({i \in DOMAIN out : out[i] \in {"api_error", "error"}}) <= 1)
    /\ [](pc = "propagated" =>
            /\ cmd \in {"models_delete", "tasks_cancel"}
            /\ ~args.force
            /\ args.eof
            /\ sent = 0
            /\ session = [state |-> "none", closes |-> 0])

\* C25 witness: tasks create --wait whose first poll raised BitingLipAPIError
\* has returned after one error report
C25_Witness ==
    /\ pc = "done"
    /\ cmd = "tasks_create"
    /\ step = 2
    /\ out = <<"created", "waiting", "api_error">>

\* C26: when the third request of system info has returned a mapping (the
\* first two having returned), the command displays the aggregated
\* information and reports no error.
C26_SystemInfoDisplays ==
    [][(/\ cmd = "system_info"
        /\ step = 3
        /\ pc = "returned"
        /\ result.outcome = "return"
        /\ result.value.mapping
        /\ result.value.src = "body"
        /\ pc' # "returned")
        => /\ pc' = "done"
           /\ out' = <<"display">>]_vars

\* C30: for workers update whose JSON options are absent or valid, the PUT
\* body holds exactly the fields supplied on the command line, and a
\* request is sent whenever a field was supplied.
C30_UpdateSendsSuppliedFields ==
    (cmd = "workers_update" /\ args.opt1 \in {"absent", "valid"}
                          /\ args.opt2 \in {"absent", "valid"}) =>
        LET supplied ==
              {f \in {"status", "max_load", "capabilities", "metadata"} :
                  \/ f = "status" /\ args.status # "absent"
                  \/ f = "max_load" /\ args.max_load # "absent"
                  \/ f = "capabilities" /\ args.opt1 # "absent"
                  \/ f = "metadata" /\ args.opt2 # "absent"}
        IN /\ pc \in {"request", "returned"} =>
                (wire.json = supplied /\ call.method = "PUT")
           /\ (pc = "done" /\ supplied # {}) => sent >= 1
           /\ (pc = "done" /\ supplied = {}) => (sent = 0 /\ out = <<"error">>)

\* C21: get_api_url gives, for a non-empty endpoint, the base URL without
\* its trailing slashes, one "/", and the endpoint without its leading
\* slashes, so every slash variant of the same base and endpoint gives the
\* same URL; for an empty endpoint it gives the base URL without trailing
\* slashes.
C21_JoinIgnoresSlashVariants ==
    (frame.fn = "get_api_url" /\ frame.at = "return") =>
        /\ frame.endpoint # <<>> => frame.ret = frame.core \o <<"/">> \o frame.rest
        /\ frame.endpoint = <<>> => frame.ret = frame.core

\* C21 witness: "http://host:8080//" joined with "//api/models"
C21_Witness ==
    /\ frame.fn = "get_api_url"
    /\ frame.at = "return"
    /\ frame.base = <<"http:", "/", "/", "host:8080", "/", "/">>
    /\ frame.endpoint = <<"/", "/", "api", "/", "models">>
    /\ frame.ret = <<"http:", "/", "/", "host:8080", "/", "api", "/", "models">>

\* C27: wait_for_completion returns True exactly when a call of check_func
\* returned True; it returns False only after a call of check_func that
\* returned False, at an elapsed time >= max_wait; check_func has been
\* called at least once when it returns, whatever max_wait is; and
\* progress_callback is called only after a failed check whose elapsed time
\* is below max_wait.
C27_WaitForCompletion ==
    /\ []((frame.fn = "wait_for_completion" /\ frame.at = "return") =>
            /\ frame.checks >= 1
            /\ frame.ret \in {"True", "False"}
            /\ frame.ret = "True" <=> frame.anyTrue
            /\ frame.ret = "False" =>
                  (~frame.truthy /\ frame.elapsed >= frame.max_wait))
    /\ []((frame.fn = "wait_for_completion" /\ frame.at # "return") =>
            ~frame.anyTrue)
    /\ [][(frame.fn = "wait_for_completion" /\ frame'.reports # frame.reports)
            => /\ frame.progress_callback
               /\ frame.checks >= 1
               /\ ~frame.truthy
               /\ frame.elapsed < frame.max_wait]_vars

\* C27 witness: with max_wait = 0 the single check failed and the function
\* returned False without calling the callback it was given
C27_Witness ==
    /\ frame.fn = "wait_for_completion"
    /\ frame.at = "return"
    /\ frame.max_wait = 0
    /\ frame.progress_callback
    /\ frame.checks = 1
    /\ frame.ret = "False"
    /\ frame.reports = 0

\* C29: print_table_with_pagination with non-empty data and page_size >= 1
\* prints at most ceil(len(data)/page_size) pages; when every prompt was
\* accepted it has displayed every row once, in the original order; after
\* a declined prompt it displays no further row; and it prompts only while
\* rows remain to be displayed.
C29_Pagination ==
    /\ []((frame.fn = "print_table_with_pagination" /\ frame.data # <<>>) =>
            LET n == Len(frame.data)
                ceil == CHOOSE c \in 0..n :
                            c * frame.page_size >= n /\ (c - 1) * frame.page_size < n
            IN /\ frame.pages <= ceil
               /\ (frame.at = "return" /\ frame.answer # "no") =>
                     (frame.shown = frame.data /\ frame.pages = ceil)
               /\ frame.at = "prompt" => Len(frame.shown) < n
               /\ frame.prompts < ceil
               /\ \A i \in 1..Len(frame.shown) : frame.shown[i] = i)
    /\ [][(frame.fn = "print_table_with_pagination" /\ frame.answer = "no")
            => frame' = frame]_vars

\* C29 witness: five rows in pages of two, every prompt accepted: three
\* pages, two prompts, all rows displayed
C29_Witness ==
    /\ frame.fn = "print_table_with_pagination"
    /\ frame.at = "return"
    /\ Len(frame.data) = 5
    /\ frame.page_size = 2
    /\ frame.pages = 3
    /\ frame.prompts = 2
    /\ frame.answer = "yes"
    /\ frame.shown = <<1, 2, 3, 4, 5>>

====
